---- MODULE Spec2Model ----
(***************************************************************************)
(* m3-pyapi: the microservice clients (microservices.py) and the typed     *)
(* deserializer (models.py).                                               *)
(*                                                                         *)
(* Text is a sequence of symbols.  "/" is the separator; every other       *)
(* symbol is a separator-free, non-empty piece of text ("a", "v1", ...).   *)
(* Python values are tagged records: None, PyInt, PyStr, PyList, PyDict    *)
(* and PyObj (an instance of one of the dataclasses of models.py).         *)
(***************************************************************************)
EXTENDS Integers, Sequences, FiniteSets, TLC

VARIABLES
  cls,       \* class of the client object, "NoClient" when __init__ raised
  base_url,  \* Microservice._base_url
  jwt,       \* Microservice._jwt
  disk,      \* bytes last written to image_file, NoFile before any write
  op,        \* name of the last call
  args,      \* its arguments (and the response the server gave to it)
  exc,       \* exception it raised, "none" when it returned
  exc_arg,   \* what the exception carries
  ret,       \* value it returned
  sent       \* HTTP requests it issued, in order

vars == <<cls, base_url, jwt, disk, op, args, exc, exc_arg, ret, sent>>

----------------------------------------------------------------------------
(* Bounds of the checked instance *)

MaxPathLen == 4      \* symbols in an endpoint given to url_to
MaxTokenLen == 1     \* symbols in an access token
MaxContentLen == 2   \* bytes in a response body given to handle_status
MaxListLen == 2      \* elements of a JSON array given to from_dict

SeqsUpTo(S, n) == UNION {[1..k -> S] : k \in 0..n}

RECURSIVE Repeat(_, _)
Repeat(x, n) == IF n = 0 THEN <<>> ELSE <<x>> \o Repeat(x, n - 1)

----------------------------------------------------------------------------
(* Python values *)

None == [t |-> "None"]
PyInt(n) == [t |-> "int", v |-> n]
PyStr(s) == [t |-> "str", v |-> s]
PyList(s) == [t |-> "list", v |-> s]
PyDict(f) == [t |-> "dict", v |-> f]
PyObj(c, slots) == [t |-> "object", cls |-> c, slots |-> slots]

EmptyDict == PyDict([k \in {} |-> None])

Return(v) == [exc |-> "none", val |-> v]
Raise(e) == [exc |-> e, val |-> None]

----------------------------------------------------------------------------
(* str.split, filter(bool, .) and str.join as url_to uses them *)

RECURSIVE split(_)
split(s) ==
  IF s = <<>> THEN << <<>> >>
  ELSE LET rest == split(Tail(s)) IN
       IF Head(s) = "/" THEN << <<>> >> \o rest
       ELSE << <<Head(s)>> \o Head(rest) >> \o Tail(rest)

filter_keep_all(parts) == parts

filter_bool(parts) == SelectSeq(parts, LAMBDA p : p # <<>>)

RECURSIVE join(_, _)
join(sep, parts) ==
  IF parts = <<>> THEN <<>>
  ELSE IF Len(parts) = 1 THEN Head(parts)
  ELSE Head(parts) \o sep \o join(sep, Tail(parts))

url_to(base, endpoint) == base \o join(<<"/">>, filter_bool(split(endpoint)))

(* '...{}...'.format(x): the template's pieces with the arguments between *)
format1(pre, x) == pre \o x
format2(pre, x, y) == pre \o x \o <<"/">> \o y
format3(pre, x, y, z) == pre \o x \o <<"/">> \o y \o <<"/">> \o z

----------------------------------------------------------------------------
(* Microservice.__init__, authenticated, _authorization_header *)

Microservice_init_append(b) ==
  IF b = <<>> THEN Raise("IndexError")
  ELSE Return([base_url |-> b \o <<"/">>, jwt |-> PyStr(<<>>)])

Microservice_init(b) ==
  IF b = <<>> THEN Raise("IndexError")                  \* base_url[-1] of ''
  ELSE Return([base_url |-> b \o (IF b[Len(b)] # "/" THEN <<"/">> ELSE <<>>),
               jwt |-> PyStr(<<>>)])

authenticated(token) == token # PyStr(<<>>)

authorization_header(token) ==
  IF ~authenticated(token) THEN Raise("AuthenticationMissingError")
  ELSE Return([Authorization |-> <<"BEARER", token>>])

----------------------------------------------------------------------------
(* models.py: the dataclasses, as dataclasses.fields() reports them *)

Prim(n) == [k |-> "prim", name |-> n]      \* str, int, float
Class(n) == [k |-> "class", name |-> n]    \* a dataclass of models.py
ListOf(n) == [k |-> "list", name |-> n]    \* typing.List[n]

CachedAncillaryDatum ==
  [uuid |-> Prim("str"), imaged_moment_uuid |-> Prim("str"),
   latitude |-> Prim("float"), longitude |-> Prim("float"),
   depth_meters |-> Prim("float"), altitude_meters |-> Prim("float"),
   crs |-> Prim("str"), salinity |-> Prim("float"),
   temperature_celsius |-> Prim("float"), oxygen |-> Prim("float"),
   pressure_dbar |-> Prim("float"), light_transmission |-> Prim("float"),
   x |-> Prim("float"), y |-> Prim("float"), z |-> Prim("float"),
   pose_position_units |-> Prim("str"), phi |-> Prim("float"),
   theta |-> Prim("float"), psi |-> Prim("float")]

ImageListing ==
  [cameraId |-> Prim("str"), deploymentId |-> Prim("str"), files |-> ListOf("str")]

ImageParams ==
  [uri |-> Prim("str"), cameraId |-> Prim("str"), deploymentId |-> Prim("str"),
   name |-> Prim("str")]

Media ==
  [video_sequence_uuid |-> Prim("str"), video_reference_uuid |-> Prim("str"),
   video_uuid |-> Prim("str"), video_sequence_name |-> Prim("str"),
   camera_id |-> Prim("str"), video_name |-> Prim("str"), uri |-> Prim("str"),
   start_timestamp |-> Prim("str"), duration_millis |-> Prim("int"),
   container |-> Prim("str"), video_codec |-> Prim("str"),
   audio_codec |-> Prim("str"), width |-> Prim("int"), height |-> Prim("int"),
   frame_rate |-> Prim("float"), size_bytes |-> Prim("int"),
   description |-> Prim("str"), sha512 |-> Prim("str")]

CachedVideoReferenceInfo ==
  [mission_contact |-> Prim("str"), platform_name |-> Prim("str"),
   video_reference_uuid |-> Prim("str"), mission_id |-> Prim("str"),
   last_updated_time |-> Prim("str"), uuid |-> Prim("str")]

Association ==
  [link_name |-> Prim("str"), link_value |-> Prim("str"),
   to_concept |-> Prim("str"), mime_type |-> Prim("str"), uuid |-> Prim("str")]

ImageReference ==
  [description |-> Prim("str"), url |-> Prim("str"),
   height_pixels |-> Prim("int"), width_pixels |-> Prim("int"),
   format |-> Prim("str"), uuid |-> Prim("str")]

Observation ==
  [observation_uuid |-> Prim("str"), concept |-> Prim("str"),
   observer |-> Prim("str"), observation_timestamp |-> Prim("str"),
   video_reference_uuid |-> Prim("str"), imaged_moment_uuid |-> Prim("str"),
   elapsed_time_millis |-> Prim("int"), recorded_timestamp |-> Prim("str"),
   group |-> Prim("str"), activity |-> Prim("str"),
   associations |-> ListOf("Association"),
   image_references |-> ListOf("ImageReference")]

ImagedMoment ==
  [recorded_date |-> Prim("str"), timecode |-> Prim("str"),
   video_reference_uuid |-> Prim("str"), observations |-> ListOf("Observation"),
   image_references |-> ListOf("ImageReference"),
   ancillary_data |-> Class("CachedAncillaryDatum"),
   last_updated_time |-> Prim("str"), uuid |-> Prim("str")]

Dataclasses ==
  {"CachedAncillaryDatum", "ImageListing", "ImageParams", "Media",
   "CachedVideoReferenceInfo", "Association", "ImageReference", "Observation",
   "ImagedMoment"}

field_types(c) ==
  CASE c = "CachedAncillaryDatum" -> CachedAncillaryDatum
    [] c = "ImageListing" -> ImageListing
    [] c = "ImageParams" -> ImageParams
    [] c = "Media" -> Media
    [] c = "CachedVideoReferenceInfo" -> CachedVideoReferenceInfo
    [] c = "Association" -> Association
    [] c = "ImageReference" -> ImageReference
    [] c = "Observation" -> Observation
    [] c = "ImagedMoment" -> ImagedMoment

(* dataclasses.fields(dtype): TypeError unless dtype is a dataclass; a      *)
(* typing.List[...] alias and a builtin type are not.                       *)
fields(dtype) ==
  IF dtype.k = "class" THEN Return(field_types(dtype.name)) ELSE Raise("TypeError")

(* dtype called with keyword arguments: every field defaults to None,      *)
(* a keyword that names no field is a TypeError.                            *)
construct(c, kwargs) ==
  IF DOMAIN kwargs \subseteq DOMAIN field_types(c)
  THEN Return(PyObj(c, [f \in DOMAIN field_types(c) |->
                          IF f \in DOMAIN kwargs THEN kwargs[f] ELSE None]))
  ELSE Raise("TypeError")

(* CachedAncillaryDatum.properties: asdict() without the None entries *)
properties(obj) ==
  LET set == {f \in DOMAIN obj.slots : obj.slots[f] # None}
  IN  PyDict([f \in set |-> obj.slots[f]])

----------------------------------------------------------------------------
(* models.py: from_dict *)

caught_type_error_only(e) == e = "TypeError"

(* line 13: a bare except catches whatever the try body raised *)
caught(e) == TRUE

fallback_none(dtype, data) == None

(* line 14: return data *)
fallback(dtype, data) == data

RECURSIVE from_dict(_, _)

(* lines 11-12, the body of the try.  The comprehension looks field_map[key] *)
(* up and recurses key by key; from_dict is pure, so only which exception    *)
(* comes first depends on the order of the keys, and none is told apart      *)
(* here: a missing key is reported before a raise of a nested call.          *)
from_dict_try(dtype, data) ==
  LET fs == fields(dtype) IN
  IF fs.exc # "none" THEN Raise(fs.exc)
  ELSE IF data.t # "dict" THEN Raise("AttributeError")      \* data.items()
  ELSE IF \E key \in DOMAIN data.v : key \notin DOMAIN fs.val
       THEN Raise("KeyError")                                \* field_map[key]
  ELSE LET sub == [key \in DOMAIN data.v |-> from_dict(fs.val[key], data.v[key])]
           bad == {key \in DOMAIN data.v : sub[key].exc # "none"}
       IN  IF bad # {} THEN Raise(sub[CHOOSE key \in bad : TRUE].exc)
           ELSE construct(dtype.name, [key \in DOMAIN data.v |-> sub[key].val])

from_dict(dtype, data) ==
  LET body == from_dict_try(dtype, data) IN
  IF body.exc # "none" /\ caught(body.exc) THEN Return(fallback(dtype, data))
  ELSE body

----------------------------------------------------------------------------
(* requests.Response: status_code, content (bytes) and json(), the outcome  *)
(* of parsing the content.  bytes.decode() is the strict UTF-8 decoder and  *)
(* gives the text as its code points.                                       *)

RaiseWith(e, payload) == [exc |-> e, val |-> payload]

then(first, second) == IF first.exc # "none" THEN first ELSE second

(* bytes of the UTF-8 sequence that starts s, 0 when s starts with none *)
Utf8Width(s) ==
  LET b1 == s[1]
      c(i, lo, hi) == Len(s) >= i /\ s[i] >= lo /\ s[i] <= hi
  IN  IF b1 < 128 THEN 1
      ELSE IF b1 >= 194 /\ b1 <= 223 /\ c(2, 128, 191) THEN 2
      ELSE IF b1 = 224 /\ c(2, 160, 191) /\ c(3, 128, 191) THEN 3
      ELSE IF b1 >= 225 /\ b1 <= 239 /\ b1 # 237 /\ c(2, 128, 191) /\ c(3, 128, 191)
           THEN 3
      ELSE IF b1 = 237 /\ c(2, 128, 159) /\ c(3, 128, 191) THEN 3
      ELSE IF b1 = 240 /\ c(2, 144, 191) /\ c(3, 128, 191) /\ c(4, 128, 191) THEN 4
      ELSE IF b1 >= 241 /\ b1 <= 243 /\ c(2, 128, 191) /\ c(3, 128, 191)
              /\ c(4, 128, 191) THEN 4
      ELSE IF b1 = 244 /\ c(2, 128, 143) /\ c(3, 128, 191) /\ c(4, 128, 191) THEN 4
      ELSE 0

Utf8CodePoint(s, w) ==
  IF w = 1 THEN s[1]
  ELSE IF w = 2 THEN (s[1] - 192) * 64 + (s[2] - 128)
  ELSE IF w = 3 THEN (s[1] - 224) * 4096 + (s[2] - 128) * 64 + (s[3] - 128)
  ELSE (s[1] - 240) * 262144 + (s[2] - 128) * 4096 + (s[3] - 128) * 64 + (s[4] - 128)

RECURSIVE decode_from(_, _)
decode_from(s, acc) ==
  IF s = <<>> THEN Return(PyStr(acc))
  ELSE LET w == Utf8Width(s) IN
       IF w = 0 THEN Raise("UnicodeDecodeError")
       ELSE decode_from(SubSeq(s, w + 1, Len(s)), Append(acc, Utf8CodePoint(s, w)))

decode(content) == decode_from(content, <<>>)

handle_status(response) ==
  IF response.status_code = 200 THEN Return(None)
  ELSE IF response.status_code = 400
       THEN LET text == decode(response.content)
            IN  then(text, RaiseWith("BadRequestError", text.val))
  ELSE IF response.status_code = 404
       THEN LET text == decode(response.content)
            IN  then(text, RaiseWith("NotFoundError", text.val))
  ELSE IF response.status_code = 504 THEN RaiseWith("TimeoutError", None)
  ELSE RaiseWith("Exception", response)

(* response.json() *)
json(response) == response.json

(* value[key] *)
subscript(value, key) ==
  IF value.t = "dict"
  THEN IF key \in DOMAIN value.v THEN Return(value.v[key]) ELSE Raise("KeyError")
  ELSE Raise("TypeError")

RECURSIVE SetToSeq(_)
SetToSeq(S) ==
  IF S = {} THEN <<>> ELSE LET x == CHOOSE x \in S : TRUE IN <<x>> \o SetToSeq(S \ {x})

(* for item in value: the elements of a list, the keys of a dict (in one    *)
(* fixed order: the order of the JSON text is not kept in PyDict), the      *)
(* symbols of a str; TypeError for a value that is not iterable.            *)
iterate(value) ==
  IF value.t = "list" THEN Return(value.v)
  ELSE IF value.t = "dict"
       THEN Return([i \in 1..Cardinality(DOMAIN value.v) |->
                      PyStr(<<SetToSeq(DOMAIN value.v)[i]>>)])
  ELSE IF value.t = "str" THEN Return([i \in 1..Len(value.v) |-> PyStr(<<value.v[i]>>)])
  ELSE Raise("TypeError")

(* return response.json() *)
as_json(response) == json(response)

(* return from_dict(dtype, response.json()) *)
as_record(dtype, response) ==
  LET j == json(response) IN then(j, from_dict(dtype, j.val))

(* return [from_dict(dtype, item) for item in response.json()] *)
as_records(dtype, response) ==
  LET j == json(response)
      it == iterate(j.val)
      each == [i \in 1..Len(it.val) |-> from_dict(dtype, it.val[i])]
      bad == {i \in 1..Len(it.val) : each[i].exc # "none"}
  IN  then(j, then(it,
        IF bad # {} THEN each[CHOOSE i \in bad : \A k \in bad : i <= k]
        ELSE Return(PyList([i \in 1..Len(it.val) |-> each[i].val]))))

----------------------------------------------------------------------------
(* Inputs of the checked instance *)

Kinds == {"Annosaurus", "Panoptes", "VampireSquid", "KB", "Users"}

(* base addresses: '', "h", "h/" and "h//" *)
BaseAddrs == {<<>>, <<"h">>, <<"h", "/">>, <<"h", "/", "/">>}

Paths == SeqsUpTo({"a", "/"}, MaxPathLen)

Ids == {<<"u">>}

Secrets == {<<"s">>}

Tokens == {PyStr(Repeat("x", n)) : n \in 0..MaxTokenLen}

X == PyStr(<<"x">>)

(* bodies; the content is the UTF-8 text that json() parses *)
BodyObject ==       \* {"uuid":"x"}
  [content |-> <<123, 34, 117, 117, 105, 100, 34, 58, 34, 120, 34, 125>>,
   json |-> Return(PyDict([uuid |-> X]))]
BodyArray ==        \* [{"uuid":"x"}]
  [content |-> <<91, 123, 34, 117, 117, 105, 100, 34, 58, 34, 120, 34, 125, 93>>,
   json |-> Return(PyList(<<PyDict([uuid |-> X])>>))]
BodyText ==         \* no
  [content |-> <<110, 111>>, json |-> Raise("JSONDecodeError")]
BodyEmptyObject ==  \* {}
  [content |-> <<123, 125>>, json |-> Return(EmptyDict)]
BodyToken(tok) ==   \* {"access_token":"<tok>"}
  [content |-> <<123, 34, 97, 99, 99, 101, 115, 115, 95, 116, 111, 107, 101, 110,
                 34, 58, 34>> \o [i \in 1..Len(tok.v) |-> 120] \o <<34, 125>>,
   json |-> Return(PyDict([access_token |-> tok]))]

Response(status, body) ==
  [status_code |-> status, content |-> body.content, json |-> body.json]

Responses ==
  {Response(st, bd) : st \in {200, 400, 404, 500, 504},
                      bd \in {BodyObject, BodyArray, BodyText}}

AuthResponses ==
  {Response(st, bd) : st \in {200, 401, 403},
                      bd \in {BodyToken(tok) : tok \in Tokens}
                             \cup {BodyEmptyObject, BodyText}}

(* responses given to handle_status alone, their content any bytes among   *)
(* n (110), the two bytes of e-acute in UTF-8 (195 169) and its one byte in *)
(* ISO-8859-1 (233); none of these bodies is JSON                           *)
StatusResponses ==
  {Response(st, [content |-> c, json |-> Raise("JSONDecodeError")]) :
     st \in {200, 201, 400, 404, 500, 504},
     c \in SeqsUpTo({110, 195, 169, 233}, MaxContentLen)}

Datum(slots) == construct("CachedAncillaryDatum", slots).val
Datums == {Datum([uuid |-> X])}
DatumLists == SeqsUpTo(Datums, 1)

(* raw values given to from_dict *)
ElemDicts == {PyDict([uuid |-> X]), PyDict([uuid |-> X, extra |-> X])}
RawLists == {PyList(s) : s \in SeqsUpTo(ElemDicts, MaxListLen)}
Scalars == {None, PyInt(5), X}
KeyValues(key) ==
  CASE key = "uuid" -> {X}
    [] key = "extra" -> {X}
    [] key = "associations" -> RawLists \cup {PyInt(5)}
    [] key = "ancillary_data" -> ElemDicts \cup {None}
RawDicts ==
  UNION {{PyDict(f) : f \in {g \in [ks -> Scalars \cup RawLists \cup ElemDicts] :
                               \A key \in ks : g[key] \in KeyValues(key)}} :
         ks \in SUBSET {"uuid", "extra", "associations", "ancillary_data"}}
RawValues == Scalars \cup RawLists \cup RawDicts
DTypes ==
  {Class("Observation"), Class("ImagedMoment"), Class("Association"),
   Class("CachedAncillaryDatum"), Prim("str"), ListOf("Association")}

NoFile == [exists |-> FALSE, content |-> <<>>]
File(bytes) == [exists |-> TRUE, content |-> bytes]

----------------------------------------------------------------------------
(* The calls.  Each one records its name, its arguments, its outcome and    *)
(* the HTTP exchanges it made (the request with the response it received).  *)

NoHeaders == [k \in {} |-> None]

Exchange(method, url, headers, params, body, response) ==
  [method |-> method, url |-> url, headers |-> headers, params |-> params,
   body |-> body, response |-> response]

Done(name, a, outcome, exchanges) ==
  /\ op' = name
  /\ args' = a
  /\ exc' = outcome.exc
  /\ exc_arg' = IF outcome.exc # "none" THEN outcome.val ELSE None
  /\ ret' = IF outcome.exc = "none" THEN outcome.val ELSE None
  /\ sent' = exchanges

(* requests.get(self.url_to(path), ...) and what the method does with the  *)
(* response; no header is attached                                          *)
Get(name, a, path, params, response, outcome) ==
  /\ Done(name, a, outcome,
          <<Exchange("GET", url_to(base_url, path), NoHeaders, params, None,
                     response)>>)
  /\ UNCHANGED <<cls, base_url, jwt, disk>>

(* a request whose headers are self._authorization_header: the property     *)
(* raises before the request is issued                                      *)
Authorized(name, a, method, path, params, body, response, outcome) ==
  LET headers == authorization_header(jwt) IN
  /\ IF headers.exc # "none" THEN Done(name, a, headers, <<>>)
     ELSE Done(name, a, outcome,
               <<Exchange(method, url_to(base_url, path), headers.val, params, body,
                          response)>>)
  /\ UNCHANGED <<cls, base_url, jwt, disk>>

----------------------------------------------------------------------------
(* Microservice *)

Init ==
  \E kind \in Kinds, b \in BaseAddrs :
    LET made == Microservice_init(b) IN
    /\ cls = IF made.exc = "none" THEN kind ELSE "NoClient"
    /\ base_url = IF made.exc = "none" THEN made.val.base_url ELSE <<>>
    /\ jwt = IF made.exc = "none" THEN made.val.jwt ELSE PyStr(<<>>)
    /\ disk \in IF kind = "Panoptes" THEN {NoFile, File(<<110>>)} ELSE {NoFile}
    /\ op = "__init__"
    /\ args = [base_url |-> b]
    /\ exc = made.exc
    /\ exc_arg = None
    /\ ret = None
    /\ sent = <<>>

call_url_to ==
  \E endpoint \in Paths :
    /\ cls # "NoClient"
    /\ Done("url_to", [endpoint |-> endpoint],
            Return(PyStr(url_to(base_url, endpoint))), <<>>)
    /\ UNCHANGED <<cls, base_url, jwt, disk>>

(* response.json()['access_token'] *)
access_token(response) ==
  LET j == json(response) IN then(j, subscript(j.val, "access_token"))

authenticate_jwt_reset(response, token) ==
  IF response.status_code = 200 /\ access_token(response).exc = "none"
  THEN access_token(response).val ELSE PyStr(<<>>)

(* self._jwt after authenticate: assigned on status 200 only, and only when *)
(* the right-hand side did not raise                                        *)
authenticate_jwt(response, token) ==
  IF response.status_code = 200 /\ access_token(response).exc = "none"
  THEN access_token(response).val ELSE token

authenticate_outcome(client_secret, response) ==
  IF response.status_code = 200 THEN then(access_token(response), Return(None))
  ELSE RaiseWith("AuthenticationError", PyStr(client_secret))

authenticate ==
  \E client_secret \in Secrets, response \in AuthResponses :
    /\ cls # "NoClient"
    /\ Done("authenticate", [client_secret |-> client_secret],
            authenticate_outcome(client_secret, response),
            <<Exchange("POST", url_to(base_url, <<"auth">>),
                       [Authorization |-> <<"APIKEY", PyStr(client_secret)>>],
                       None, None, response)>>)
    /\ jwt' = authenticate_jwt(response, jwt)
    /\ UNCHANGED <<cls, base_url, disk>>

get_authenticated ==
  /\ cls # "NoClient"
  /\ Done("authenticated", [k \in {} |-> None],
          Return([t |-> "bool", v |-> authenticated(jwt)]), <<>>)
  /\ UNCHANGED <<cls, base_url, jwt, disk>>

----------------------------------------------------------------------------
(* Annosaurus *)

get_ancillary_data ==
  \E uuid \in Ids, response \in Responses :
    /\ cls = "Annosaurus"
    /\ Get("get_ancillary_data", [uuid |-> uuid],
           format1(<<"v1", "/", "ancillarydata", "/">>, uuid),
           None, response,
           then(handle_status(response), as_record(Class("CachedAncillaryDatum"), response)))

get_ancillary_data_videoreference ==
  \E uuid \in Ids, response \in Responses :
    /\ cls = "Annosaurus"
    /\ Get("get_ancillary_data_videoreference", [uuid |-> uuid],
           format1(<<"v1", "/", "ancillarydata", "/", "videoreference", "/">>, uuid),
           None, response,
           then(handle_status(response), as_json(response)))

get_ancillary_data_imagedmoment ==
  \E uuid \in Ids, response \in Responses :
    /\ cls = "Annosaurus"
    /\ Get("get_ancillary_data_imagedmoment", [uuid |-> uuid],
           format1(<<"v1", "/", "ancillarydata", "/", "imagedmoment", "/">>, uuid),
           None, response,
           then(handle_status(response), as_json(response)))

get_ancillary_data_observation ==
  \E uuid \in Ids, response \in Responses :
    /\ cls = "Annosaurus"
    /\ Get("get_ancillary_data_observation", [uuid |-> uuid],
           format1(<<"v1", "/", "ancillarydata", "/", "observation", "/">>, uuid),
           None, response,
           then(handle_status(response), as_json(response)))

(* the arguments of requests.post are evaluated left to right: the url, the *)
(* header property, then ancillary_datum.properties                         *)
create_ancillary_datum ==
  \E ancillary_datum \in Datums, response \in Responses :
    /\ cls = "Annosaurus"
    /\ Authorized("create_ancillary_datum", [ancillary_datum |-> ancillary_datum],
                  "POST", <<"v1", "/", "ancillarydata">>,
                  None, properties(ancillary_datum), response,
                  then(handle_status(response), as_json(response)))

(* json.dumps([datum.properties for datum in ancillary_data]) *)
dumps_properties(ancillary_data) ==
  [t |-> "json.dumps",
   v |-> PyList([i \in 1..Len(ancillary_data) |-> properties(ancillary_data[i])])]

create_ancillary_data_bulk ==
  \E ancillary_data \in DatumLists, response \in Responses :
    /\ cls = "Annosaurus"
    /\ Authorized("create_ancillary_data_bulk", [ancillary_data |-> ancillary_data],
                  "POST", <<"v1", "/", "ancillarydata", "/", "bulk">>,
                  None, dumps_properties(ancillary_data), response,
                  then(handle_status(response), as_json(response)))

(* the response is not looked at and nothing is returned *)
merge_ancillary_data ==
  \E uuid \in Ids, ancillary_data \in DatumLists, window \in {0, 1},
     response \in Responses :
    /\ cls = "Annosaurus"
    /\ Authorized("merge_ancillary_data",
                  [uuid |-> uuid, ancillary_data |-> ancillary_data, window |-> window],
                  "PUT", format1(<<"v1", "/", "ancillarydata", "/", "merge", "/">>, uuid),
                  IF window > 0 THEN PyDict([window |-> PyInt(window)]) ELSE None,
                  dumps_properties(ancillary_data), response,
                  Return(None))


get_annotation ==
  \E uuid \in Ids, response \in Responses :
    /\ cls = "Annosaurus"
    /\ Get("get_annotation", [uuid |-> uuid],
           format1(<<"v1", "/", "annotations", "/">>, uuid),
           None, response,
           as_record(Class("Observation"), response))

get_annotations_videoreference ==
  \E uuid \in Ids, response \in Responses :
    /\ cls = "Annosaurus"
    /\ Get("get_annotations_videoreference", [uuid |-> uuid],
           format1(<<"v1", "/", "annotations", "/", "videoreference", "/">>, uuid),
           EmptyDict, response,
           as_records(Class("Observation"), response))

get_annotations_imagereference ==
  \E uuid \in Ids, response \in Responses :
    /\ cls = "Annosaurus"
    /\ Get("get_annotations_imagereference", [uuid |-> uuid],
           format1(<<"v1", "/", "annotations", "/", "imagereference", "/">>, uuid),
           EmptyDict, response,
           as_records(Class("Observation"), response))

get_annotations_videoreference_chunked ==
  \E uuid \in Ids, response \in Responses :
    /\ cls = "Annosaurus"
    /\ Get("get_annotations_videoreference_chunked", [uuid |-> uuid],
           format1(<<"v1", "/", "annotations", "/", "videoreference", "/", "chunked", "/">>, uuid),
           EmptyDict, response,
           as_records(Class("Observation"), response))

get_vri_all ==
  \E response \in Responses :
    /\ cls = "Annosaurus"
    /\ Get("get_vri_all", [k \in {} |-> None],
           <<"v1", "/", "videoreferences", "/">>,
           EmptyDict, response,
           as_records(Class("CachedVideoReferenceInfo"), response))

get_vri_uuid ==
  \E uuid \in Ids, response \in Responses :
    /\ cls = "Annosaurus"
    /\ Get("get_vri_uuid", [uuid |-> uuid],
           format1(<<"v1", "/", "videoreferences", "/">>, uuid),
           None, response,
           as_record(Class("CachedVideoReferenceInfo"), response))

get_videoreferenceuuid_all ==
  \E response \in Responses :
    /\ cls = "Annosaurus"
    /\ Get("get_videoreferenceuuid_all", [k \in {} |-> None],
           <<"v1", "/", "videoreferences", "/", "videoreferences">>,
           None, response,
           as_json(response))

get_vri_videoreferenceuuid ==
  \E uuid \in Ids, response \in Responses :
    /\ cls = "Annosaurus"
    /\ Get("get_vri_videoreferenceuuid", [uuid |-> uuid],
           format1(<<"v1", "/", "videoreferences", "/", "videoreference", "/">>, uuid),
           None, response,
           as_records(Class("CachedVideoReferenceInfo"), response))

get_missionids ==
  \E response \in Responses :
    /\ cls = "Annosaurus"
    /\ Get("get_missionids", [k \in {} |-> None],
           <<"v1", "/", "videoreferences", "/", "missionids">>,
           None, response,
           as_json(response))

get_vri_missionid ==
  \E mission_id \in Ids, response \in Responses :
    /\ cls = "Annosaurus"
    /\ Get("get_vri_missionid", [mission_id |-> mission_id],
           format1(<<"v1", "/", "videoreferences", "/", "missionid", "/">>, mission_id),
           None, response,
           as_records(Class("CachedVideoReferenceInfo"), response))

get_missioncontacts ==
  \E response \in Responses :
    /\ cls = "Annosaurus"
    /\ Get("get_missioncontacts", [k \in {} |-> None],
           <<"v1", "/", "videoreferences", "/", "missioncontacts">>,
           None, response,
           as_json(response))

get_vri_missioncontact ==
  \E mission_contact \in Ids, response \in Responses :
    /\ cls = "Annosaurus"
    /\ Get("get_vri_missioncontact", [mission_contact |-> mission_contact],
           format1(<<"v1", "/", "videoreferences", "/", "missioncontact", "/">>, mission_contact),
           None, response,
           as_records(Class("CachedVideoReferenceInfo"), response))


----------------------------------------------------------------------------
(* Panoptes.  image_file names the one file kept in disk. *)

(* ImageParams(response.json()): the value is the first positional          *)
(* argument, the field uri                                                  *)
as_image_params(response) ==
  LET j == json(response) IN then(j, construct("ImageParams", [uri |-> j.val]))

(* open(image_file, 'rb') comes first, then the url and the header property *)
upload_framegrab ==
  \E camera_id \in Ids, deployment_id \in Ids, name \in Ids, response \in Responses :
    /\ cls = "Panoptes"
    /\ LET a == [camera_id |-> camera_id, deployment_id |-> deployment_id,
                 name |-> name]
       IN  IF ~disk.exists
           THEN /\ Done("upload_framegrab", a, Raise("FileNotFoundError"), <<>>)
                /\ UNCHANGED <<cls, base_url, jwt, disk>>
           ELSE Authorized("upload_framegrab", a, "POST",
                           format3(<<"v1", "/", "images", "/">>,
                                   camera_id, deployment_id, name),
                           None, [t |-> "files", v |-> disk.content], response,
                           then(handle_status(response), as_image_params(response)))


get_framegrab ==
  \E camera_id \in Ids, deployment_id \in Ids, name \in Ids, response \in Responses :
    /\ cls = "Panoptes"
    /\ Get("get_framegrab", [camera_id |-> camera_id, deployment_id |-> deployment_id, name |-> name],
           format3(<<"v1", "/", "images", "/">>, camera_id, deployment_id, name),
           None, response,
           then(handle_status(response), as_record(Class("ImageParams"), response)))

(* the content is written to image_file whatever the status; nothing is    *)
(* returned                                                                 *)
download_framegrab ==
  \E camera_id \in Ids, deployment_id \in Ids, name \in Ids, response \in Responses :
    /\ cls = "Panoptes"
    /\ Done("download_framegrab",
            [camera_id |-> camera_id, deployment_id |-> deployment_id, name |-> name],
            Return(None),
            <<Exchange("GET",
                       url_to(base_url, format3(<<"v1", "/", "images", "/", "download", "/">>,
                                                camera_id, deployment_id, name)),
                       NoHeaders, None, None, response)>>)
    /\ disk' = File(response.content)
    /\ UNCHANGED <<cls, base_url, jwt>>

----------------------------------------------------------------------------
(* VampireSquid *)


get_media_videoreference ==
  \E uuid \in Ids, response \in Responses :
    /\ cls = "VampireSquid"
    /\ Get("get_media_videoreference", [uuid |-> uuid],
           format1(<<"v1", "/", "media", "/", "videoreference", "/">>, uuid),
           None, response,
           then(handle_status(response), as_record(Class("Media"), response)))

get_media_videoreference_filename ==
  \E filename \in Ids, response \in Responses :
    /\ cls = "VampireSquid"
    /\ Get("get_media_videoreference_filename", [filename |-> filename],
           format1(<<"v1", "/", "media", "/", "videoreference", "/", "filename", "/">>, filename),
           None, response,
           then(handle_status(response), as_record(Class("Media"), response)))

get_media_videosequence_name ==
  \E name \in Ids, response \in Responses :
    /\ cls = "VampireSquid"
    /\ Get("get_media_videosequence_name", [name |-> name],
           format1(<<"v1", "/", "media", "/", "videosequence", "/">>, name),
           None, response,
           then(handle_status(response), as_records(Class("Media"), response)))

get_media_video ==
  \E name \in Ids, response \in Responses :
    /\ cls = "VampireSquid"
    /\ Get("get_media_video", [name |-> name],
           format1(<<"v1", "/", "media", "/", "video", "/">>, name),
           None, response,
           then(handle_status(response), as_records(Class("Media"), response)))

get_media_camera_timestamps ==
  \E camera_id \in Ids, start_time \in Ids, end_time \in Ids, response \in Responses :
    /\ cls = "VampireSquid"
    /\ Get("get_media_camera_timestamps", [camera_id |-> camera_id, start_time |-> start_time, end_time |-> end_time],
           format3(<<"v1", "/", "media", "/", "camera", "/">>, camera_id, start_time, end_time),
           None, response,
           then(handle_status(response), as_records(Class("Media"), response)))

get_media_concurrent ==
  \E uuid \in Ids, response \in Responses :
    /\ cls = "VampireSquid"
    /\ Get("get_media_concurrent", [uuid |-> uuid],
           format1(<<"v1", "/", "media", "/", "concurrent", "/">>, uuid),
           None, response,
           then(handle_status(response), as_records(Class("Media"), response)))

get_media_camera_datetime ==
  \E camera_id \in Ids, date_time \in Ids, response \in Responses :
    /\ cls = "VampireSquid"
    /\ Get("get_media_camera_datetime", [camera_id |-> camera_id, date_time |-> date_time],
           format2(<<"v1", "/", "media", "/", "camera", "/">>, camera_id, date_time),
           None, response,
           then(handle_status(response), as_records(Class("Media"), response)))

get_media_uri ==
  \E uri \in Ids, response \in Responses :
    /\ cls = "VampireSquid"
    /\ Get("get_media_uri", [uri |-> uri],
           format1(<<"v1", "/", "media", "/", "uri", "/">>, uri),
           None, response,
           then(handle_status(response), as_record(Class("Media"), response)))

----------------------------------------------------------------------------
(* The module-level functions, called on their own: the call is entered    *)
(* with its arguments (exc = "running") and then returns or raises.         *)

call_handle_status ==
  /\ op = "handle_status" /\ exc = "running"
  /\ Done("handle_status", args, handle_status(args.response), <<>>)
  /\ UNCHANGED <<cls, base_url, jwt, disk>>

call_from_dict ==
  /\ op = "from_dict" /\ exc = "running"
  /\ Done("from_dict", args, from_dict(args.dtype, args.data), <<>>)
  /\ UNCHANGED <<cls, base_url, jwt, disk>>

----------------------------------------------------------------------------
(* Specifications *)

Next ==
  \/ call_url_to
  \/ authenticate
  \/ get_authenticated
  \/ get_ancillary_data
  \/ get_ancillary_data_videoreference
  \/ get_ancillary_data_imagedmoment
  \/ get_ancillary_data_observation
  \/ create_ancillary_datum
  \/ create_ancillary_data_bulk
  \/ merge_ancillary_data
  \/ get_annotation
  \/ get_annotations_videoreference
  \/ get_annotations_imagereference
  \/ get_annotations_videoreference_chunked
  \/ get_vri_all
  \/ get_vri_uuid
  \/ get_videoreferenceuuid_all
  \/ get_vri_videoreferenceuuid
  \/ get_missionids
  \/ get_vri_missionid
  \/ get_missioncontacts
  \/ get_vri_missioncontact
  \/ upload_framegrab
  \/ get_framegrab
  \/ download_framegrab
  \/ get_media_videoreference
  \/ get_media_videoreference_filename
  \/ get_media_videosequence_name
  \/ get_media_video
  \/ get_media_camera_timestamps
  \/ get_media_concurrent
  \/ get_media_camera_datetime
  \/ get_media_uri

(* the clients: construction, then any sequence of calls *)
Spec == Init /\ [][Next]_vars

(* a function that takes no client, entered with any of its inputs; an     *)
(* Annosaurus client at "h" stands by                                       *)
Entered(name, inputs) ==
  LET made == Microservice_init(<<"h">>) IN
  /\ cls = "Annosaurus"
  /\ base_url = made.val.base_url
  /\ jwt = made.val.jwt
  /\ disk = NoFile
  /\ op = name
  /\ args \in inputs
  /\ exc = "running"
  /\ exc_arg = None
  /\ ret = None
  /\ sent = <<>>

InitStatus == Entered("handle_status", [response : StatusResponses])

SpecStatus == InitStatus /\ [][call_handle_status]_vars

InitFromDict == Entered("from_dict", [dtype : DTypes, data : RawValues])

SpecFromDict == InitFromDict /\ [][call_from_dict]_vars

----------------------------------------------------------------------------
(* Properties *)

returned == exc # "running"

PrivilegedOps ==
  {"create_ancillary_datum", "create_ancillary_data_bulk", "merge_ancillary_data",
   "upload_framegrab"}

(* the calls that are not an endpoint of a service *)
BaseOps == {"__init__", "url_to", "authenticate", "authenticated", "handle_status",
            "from_dict"}

(* the errors handle_status raises *)
StatusErrors == {"BadRequestError", "NotFoundError", "TimeoutError", "Exception"}

(* the non-empty segments of a path, read symbol by symbol *)
RECURSIVE Scan(_, _, _)
Scan(s, cur, acc) ==
  IF s = <<>> THEN (IF cur = <<>> THEN acc ELSE Append(acc, cur))
  ELSE IF Head(s) = "/"
       THEN Scan(Tail(s), <<>>, IF cur = <<>> THEN acc ELSE Append(acc, cur))
       ELSE Scan(Tail(s), Append(cur, Head(s)), acc)

Segments(path) == Scan(path, <<>>, <<>>)

EndsInOneSeparator(s) ==
  /\ Len(s) >= 1
  /\ s[Len(s)] = "/"
  /\ Len(s) >= 2 => s[Len(s) - 1] # "/"

IsRecordOf(value, c) == value.t = "object" /\ value.cls = c

(* C1: once a client is authenticated, no later call on it leaves it        *)
(* unauthenticated.                                                         *)
C1_AuthenticationMonotonic == [][authenticated(jwt) => authenticated(jwt')]_vars

(* C2: a privileged call on an unauthenticated client raises                *)
(* AuthenticationMissingError and issues no HTTP request.                   *)
C2_PrivilegedGate ==
  (op \in PrivilegedOps /\ ~authenticated(jwt))
    => (exc = "AuthenticationMissingError" /\ sent = <<>>)

(* C3: authenticate, given a response whose status is not 200, raises       *)
(* AuthenticationError (with the secret) and leaves the token as it was.    *)
C3_FailedAuthKeepsToken ==
  [][(op' = "authenticate" /\ sent'[1].response.status_code # 200)
       => /\ exc' = "AuthenticationError"
          /\ exc_arg' = PyStr(args'.client_secret)
          /\ jwt' = jwt]_vars

C3_Witness ==
  /\ op = "authenticate"
  /\ sent[1].response.status_code = 401
  /\ exc = "AuthenticationError"
  /\ authenticated(jwt)

(* C4: handle_status gives exactly the outcome of the table: 200 returns,   *)
(* 400 raises BadRequestError with the decoded body, 404 NotFoundError with *)
(* the decoded body, 504 TimeoutError with no payload, any other status the *)
(* generic error that wraps the response.                                   *)
C4_StatusTable ==
  (op = "handle_status" /\ returned) =>
    LET r == args.response IN
    CASE r.status_code = 200 -> exc = "none" /\ ret = None
      [] r.status_code = 400 ->
           exc = "BadRequestError" /\ exc_arg = decode(r.content).val
      [] r.status_code = 404 ->
           exc = "NotFoundError" /\ exc_arg = decode(r.content).val
      [] r.status_code = 504 -> exc = "TimeoutError" /\ exc_arg = None
      [] OTHER -> exc = "Exception" /\ exc_arg = r

(* C5: an endpoint call whose response has a status that is not a success   *)
(* ends in one of the errors of handle_status, never in a returned value.   *)
C5_StatusChecked ==
  (op \notin BaseOps /\ sent # <<>> /\ sent[1].response.status_code # 200)
    => exc \in StatusErrors

(* C6, as stated: given a dataclass and a mapping with declared and          *)
(* undeclared keys, from_dict ignores the undeclared keys and returns a      *)
(* record of the class, its declared keys resolved and its other slots null. *)
C6_UndeclaredIgnored ==
  (/\ op = "from_dict" /\ returned
   /\ args.dtype.k = "class" /\ args.data.t = "dict"
   /\ \E key \in DOMAIN args.data.v : key \in DOMAIN field_types(args.dtype.name)
   /\ \E key \in DOMAIN args.data.v : key \notin DOMAIN field_types(args.dtype.name))
    => /\ exc = "none"
       /\ IsRecordOf(ret, args.dtype.name)
       /\ \A f \in DOMAIN field_types(args.dtype.name) :
            ret.slots[f] = IF f \in DOMAIN args.data.v
                           THEN from_dict(field_types(args.dtype.name)[f],
                                          args.data.v[f]).val
                           ELSE None

(* C6, amended: given a dataclass and a mapping, from_dict returns the       *)
(* mapping itself when one of its keys is undeclared; when every key is      *)
(* declared it returns a record of the class whose slots hold the resolved   *)
(* values of the keys present and null for the others.                       *)
C6_UndeclaredFallsBack ==
  (/\ op = "from_dict" /\ returned
   /\ args.dtype.k = "class" /\ args.data.t = "dict")
    => /\ exc = "none"
       /\ IF \E key \in DOMAIN args.data.v :
               key \notin DOMAIN field_types(args.dtype.name)
          THEN ret = args.data
          ELSE /\ IsRecordOf(ret, args.dtype.name)
               /\ \A f \in DOMAIN field_types(args.dtype.name) :
                    ret.slots[f] = IF f \in DOMAIN args.data.v
                                   THEN from_dict(field_types(args.dtype.name)[f],
                                                  args.data.v[f]).val
                                   ELSE None

C6_Witness ==
  /\ op = "from_dict" /\ returned
  /\ args.dtype = Class("Association")
  /\ args.data = PyDict([uuid |-> X, extra |-> X])
  /\ ret = args.data

(* C7: given Observation and a mapping whose associations is a sequence of  *)
(* Association mappings, the slot holds the sequence of Association records *)
(* made of them, of the same length and in the same order.                  *)
C7_SequenceOfRecords ==
  (/\ op = "from_dict" /\ returned
   /\ args.dtype = Class("Observation") /\ args.data.t = "dict"
   /\ DOMAIN args.data.v \subseteq DOMAIN Observation
   /\ "associations" \in DOMAIN args.data.v
   /\ args.data.v.associations.t = "list"
   /\ \A i \in 1..Len(args.data.v.associations.v) :
        /\ args.data.v.associations.v[i].t = "dict"
        /\ DOMAIN args.data.v.associations.v[i].v \subseteq DOMAIN Association)
    => /\ IsRecordOf(ret, "Observation")
       /\ ret.slots.associations.t = "list"
       /\ Len(ret.slots.associations.v) = Len(args.data.v.associations.v)
       /\ \A i \in 1..Len(args.data.v.associations.v) :
            /\ IsRecordOf(ret.slots.associations.v[i], "Association")
            /\ \A f \in DOMAIN args.data.v.associations.v[i].v :
                 ret.slots.associations.v[i].slots[f]
                   = args.data.v.associations.v[i].v[f]

(* C8: from_dict never raises, and it returns the raw value unchanged when  *)
(* that is no mapping or when the record cannot be constructed (the type is *)
(* no dataclass, a key is undeclared); otherwise it returns a record.       *)
C8_NeverRaises ==
  (op = "from_dict" /\ returned)
    => /\ exc = "none"
       /\ (\/ args.data.t # "dict"
           \/ args.dtype.k # "class"
           \/ \E key \in DOMAIN args.data.v :
                key \notin DOMAIN field_types(args.dtype.name))
            => ret = args.data
       /\ ret = args.data \/ IsRecordOf(ret, args.dtype.name)

C8_Witness ==
  /\ op = "from_dict" /\ returned
  /\ args.dtype = Class("Observation")
  /\ args.data = PyInt(5)
  /\ exc = "none"
  /\ ret = PyInt(5)

(* C9: url_to leaves the session alone, and two calls on a client with      *)
(* paths that have the same non-empty segments return the same URL.         *)
C9_SeparatorInsensitive ==
  [][op' = "url_to"
       => /\ base_url' = base_url /\ jwt' = jwt /\ sent' = <<>>
          /\ (op = "url_to" /\ Segments(args.endpoint) = Segments(args'.endpoint))
               => ret' = ret]_vars

C9_Witness ==
  /\ op = "url_to"
  /\ args.endpoint = <<"/", "a", "/", "/">>
  /\ ret = PyStr(base_url \o <<"a">>)

(* C10, as stated: construction gives a client whose base address ends in   *)
(* exactly one separator and whose token is empty, and issues no HTTP       *)
(* request.                                                                 *)
C10_Construction ==
  op = "__init__"
    => /\ exc = "none"
       /\ EndsInOneSeparator(base_url)
       /\ jwt = PyStr(<<>>)
       /\ sent = <<>>

(* C10, amended: construction issues no HTTP request; given '' it raises    *)
(* IndexError and gives no client; given any other address it gives a       *)
(* client with an empty token whose base address ends in a separator: the   *)
(* address itself when that ends in one (its trailing separators are kept), *)
(* the address with one separator added otherwise.                          *)
C10_ConstructionKeepsTrailing ==
  op = "__init__"
    => /\ sent = <<>>
       /\ IF args.base_url = <<>> THEN exc = "IndexError" /\ cls = "NoClient"
          ELSE /\ exc = "none" /\ cls # "NoClient"
               /\ jwt = PyStr(<<>>)
               /\ base_url[Len(base_url)] = "/"
               /\ base_url \in {args.base_url, args.base_url \o <<"/">>}
               /\ args.base_url[Len(args.base_url)] = "/" => base_url = args.base_url

C10_Witness ==
  /\ op = "__init__"
  /\ args.base_url = <<"h", "/", "/">>
  /\ base_url = <<"h", "/", "/">>
  /\ ~authenticated(jwt)

====
